---------------------------- MODULE Spec2Model ----------------------------
(***************************************************************************)
(* ReplayBuffer of chainerrl/replay_buffers/replay_buffer.py: an n-step    *)
(* experience replay buffer.  Raw transitions are appended per env_id into *)
(* a sliding window (a deque with maxlen = num_steps); full windows, and   *)
(* the shrinking suffixes at an episode end, are pushed as lists into a    *)
(* bounded FIFO queue (RandomAccessQueue with maxlen = capacity).          *)
(***************************************************************************)
EXTENDS Integers, Sequences, FiniteSets, TLC

\* ---- bounds of the model ----
MaxCapacity == 3
MaxNumSteps == 3
MaxAppends == 3
MaxSample == 2
MaxConstructs == 1
MaxFreshAppends == 2
MaxSkip == 3
MaxInnerSteps == 4
MaxRecorderSteps == 3
MaxEnum == 3

\* the env_ids the callers use; 0 is the default env_id
Envs == {0, 1}

\* Python's None (capacity=None: unbounded queue)
None == -1

VARIABLES
    capacity,            \* self.capacity
    num_steps,           \* self.num_steps
    memory,              \* self.memory: [cls: its type, items: oldest first, maxlen]
    last_n_transitions,  \* self.last_n_transitions: env_id -> window (keys created lazily)
    nextId,              \* identity of the next experience dict created by append
    emitted,             \* history: every list passed to self.memory.append, in order
    appended,            \* history: appended[i] describes the experience with id i
    episode,             \* history: per env_id, the number of episodes ended so far
    alone,               \* history: per env_id, a buffer that gets that env_id's calls only
    last,                \* history: the most recent call, with the state it started from
    file,                \* the pickle stored under the filename given to save / load
    saved,               \* history: who wrote the file and the queue contents it held
    constructs,          \* the number of ReplayBuffer objects constructed after the first
    loop,                \* the flush / drain loop a call is in: [pc, env_id, iters, len0]
    fs,                  \* a FrameSkip wrapper, its wrapped env and its most recent step
    rec,                 \* a _ContinuingTimeLimitStatsRecorder and its most recent call
    sd                   \* a SerialDiscreteActionWrapper and its most recent action(a) call

vars == <<capacity, num_steps, memory, last_n_transitions, nextId,
          emitted, appended, episode, alone, last, file, saved, constructs,
          loop, fs, rec, sd>>

\* ---- helpers on sequences ----
Last(s) == s[Len(s)]

\* the last k elements of s (all of s when k >= Len(s))
Suffix(s, k) == IF k >= Len(s) THEN s ELSE SubSeq(s, Len(s) - k + 1, Len(s))

Min(a, b) == IF a <= b THEN a ELSE b

\* the window stored under key e of the mapping lnt, empty when e is no key of it
Peek(lnt, e) == IF e \in DOMAIN lnt THEN lnt[e] ELSE <<>>

\* ---- RandomAccessQueue (chainerrl.misc.collections) ----
\* append: when the queue already holds maxlen items the oldest is discarded
QueueAppend(q, item) ==
    IF q.maxlen # None /\ Len(q.items) = q.maxlen
    THEN [q EXCEPT !.items = Append(Tail(q.items), item)]
    ELSE [q EXCEPT !.items = Append(q.items, item)]

\* ---- collections.deque([], maxlen=num_steps).append ----
DequeAppendUnbounded(d, x, maxlen) == Append(d, x)
DequeAppendKeepsOldest(d, x, maxlen) ==
    IF Len(d) = maxlen THEN d ELSE Append(d, x)
DequeAppend(d, x, maxlen) ==
    IF Len(d) = maxlen THEN Append(Tail(d), x) ELSE Append(d, x)

\* ---- collections.defaultdict: reading a missing key creates it ----
GetItem(lnt, env_id) ==
    IF env_id \in DOMAIN lnt
    THEN lnt
    ELSE [e \in DOMAIN lnt \cup {env_id} |-> IF e = env_id THEN <<>> ELSE lnt[e]]

\* last_n_transitions = self.last_n_transitions[env_id]
WindowOfShared(lnt, env_id) == IF 0 \in DOMAIN lnt THEN lnt[0] ELSE <<>>
WindowOf(lnt, env_id) == GetItem(lnt, env_id)[env_id]

\* maxlen of the queue built by __init__: RandomAccessQueue(maxlen=capacity)
MemoryMaxlenUnbounded(cap) == None
MemoryMaxlen(cap) == cap

\* self.memory.append(list(last_n_transitions)); st = [memory, emitted]
MemoryAppendKeepOldest(st, w) ==
    [memory |-> IF st.memory.maxlen # None /\ Len(st.memory.items) = st.memory.maxlen
                THEN st.memory
                ELSE QueueAppend(st.memory, w),
     emitted |-> Append(st.emitted, w)]
MemoryAppend(st, w) ==
    [memory |-> QueueAppend(st.memory, w), emitted |-> Append(st.emitted, w)]

\* while last_n_transitions: self.memory.append(list(...)); del last_n_transitions[0]
FlushLoopOnce(w, st) ==
    IF w # <<>>
    THEN [window |-> <<>>, st |-> MemoryAppend(st, w)]
    ELSE [window |-> w, st |-> st]
RECURSIVE FlushLoopStopsAtOne(_, _)
FlushLoopStopsAtOne(w, st) ==
    IF Len(w) > 1
    THEN FlushLoopStopsAtOne(Tail(w), MemoryAppend(st, w))
    ELSE [window |-> w, st |-> st]
RECURSIVE FlushLoop(_, _)
FlushLoop(w, st) ==
    IF w # <<>>
    THEN FlushLoop(Tail(w), MemoryAppend(st, w))
    ELSE [window |-> w, st |-> st]

\* the experience dict built by append
experience(id, is_state_terminal) ==
    [id |-> id, is_state_terminal |-> is_state_terminal]

\* the test of the non-terminal branch of append
WindowReadyUpTo(w, n) == Len(w) <= n
WindowReadyOneEarly(w, n) == Len(w) = n - 1
WindowReady(w, n) == Len(w) = n

\* body of ReplayBuffer.append after the window lookup: [window, st]
AppendBodyNoLengthTest(w0, st, exp, n) ==
    LET w1 == DequeAppend(w0, exp, n) IN
    IF exp.is_state_terminal
    THEN FlushLoop(w1, st)
    ELSE [window |-> w1, st |-> MemoryAppend(st, w1)]
AppendBodyNoFlush(w0, st, exp, n) ==
    LET w1 == DequeAppend(w0, exp, n) IN
    IF WindowReady(w1, n)
    THEN [window |-> w1, st |-> MemoryAppend(st, w1)]
    ELSE [window |-> w1, st |-> st]
AppendBody(w0, st, exp, n) ==
    LET w1 == DequeAppend(w0, exp, n) IN
    IF exp.is_state_terminal
    THEN FlushLoop(w1, st)
    ELSE IF WindowReady(w1, n)
         THEN [window |-> w1, st |-> MemoryAppend(st, w1)]
         ELSE [window |-> w1, st |-> st]

\* the two length tests of stop_current_episode
StopEmitsPartialOrFull(w, n) == 0 < Len(w) /\ Len(w) <= n
StopEmitsPartialOrEmpty(w, n) == Len(w) < n
StopEmitsPartial(w, n) == 0 < Len(w) /\ Len(w) < n

StopDropsNothing(w, n) == FALSE
StopDropsHeadStrict(w, n) == 0 < Len(w) /\ Len(w) < n
StopDropsHead(w, n) == 0 < Len(w) /\ Len(w) <= n

\* body of ReplayBuffer.stop_current_episode after the window lookup: [window, st]
StopBodyNoDrain(w0, st, n) == [window |-> <<>>, st |-> st]
StopBodyKeepWindow(w0, st, n) ==
    LET st1 == IF StopEmitsPartial(w0, n) THEN MemoryAppend(st, w0) ELSE st
        w1  == IF StopDropsHead(w0, n) THEN Tail(w0) ELSE w0
    IN [window |-> w0, st |-> FlushLoop(w1, st1).st]
StopBodyFlushAll(w0, st, n) == FlushLoop(w0, st)
StopBody(w0, st, n) ==
    LET st1 == IF StopEmitsPartial(w0, n) THEN MemoryAppend(st, w0) ELSE st
        w1  == IF StopDropsHead(w0, n) THEN Tail(w0) ELSE w0
    IN FlushLoop(w1, st1)

\* ReplayBuffer.append on the buffer state (lnt, st): [lnt, st]
AppendCall(lnt, st, env_id, exp, n) ==
    LET r == AppendBody(WindowOf(lnt, env_id), st, exp, n)
    IN [lnt |-> [GetItem(lnt, env_id) EXCEPT ![env_id] = r.window], st |-> r.st]

\* ReplayBuffer.stop_current_episode on the buffer state (lnt, st): [lnt, st]
StopCall(lnt, st, env_id, n) ==
    LET r == StopBody(WindowOf(lnt, env_id), st, n)
    IN [lnt |-> [GetItem(lnt, env_id) EXCEPT ![env_id] = r.window], st |-> r.st]

\* nothing has written the file
NotSaved == [origin |-> "none", items |-> <<>>, maxlen |-> None]

\* ---- the state after ReplayBuffer(capacity, num_steps) ----
NoCall ==
    [op |-> "init", env_id |-> 0, is_state_terminal |-> FALSE, id |-> 0,
     window |-> <<>>, windows |-> <<>>, items |-> <<>>, nemitted |-> 0,
     k |-> 0, ret |-> {}, error |-> "", n |-> 0, cap |-> None,
     read |-> NotSaved]

\* a second buffer, same configuration, that receives only the calls of one env_id
NewBuffer(cap) ==
    [lnt |-> <<>>,
     st |-> [memory |-> [cls |-> "RandomAccessQueue", items |-> <<>>,
                         maxlen |-> MemoryMaxlen(cap)],
             emitted |-> <<>>]]

\* assert num_steps > 0
NumStepsAssertNonNegative(n) == n >= 0
NumStepsAssert(n) == n > 0

\* no call is inside the flush loop of append or the drain loop of
\* stop_current_episode
LoopIdle == [pc |-> "idle", env_id |-> 0, iters |-> 0, len0 |-> 0]

\* no FrameSkip wrapper and no stats recorder has been constructed
NoReturn == [obs |-> 0, total_reward |-> 0, done |-> FALSE, info |-> [of |-> 0]]
FsNone ==
    [op |-> "none", skip |-> 0, action |-> 0, inner |-> <<>>, ret |-> NoReturn,
     error |-> "", t |-> 0]
NoDict == [keys |-> <<>>, val |-> <<>>]
SdNone ==
    [op |-> "none", error |-> "", always_keys |-> <<>>, reverse_keys |-> <<>>,
     exclude_keys |-> <<>>, exclude_noop |-> FALSE, noop |-> NoDict,
     actions |-> <<>>, n |-> 0, a |-> 0, ret |-> NoDict]
RecNone ==
    [op |-> "none", autoreset |-> FALSE, closed |-> FALSE, done |-> "None",
     steps |-> None, initial_reset |-> FALSE, episode_lengths |-> <<>>,
     save_completed |-> TRUE, error |-> "",
     ncalls |-> 0, since |-> 0, ran |-> 0, since_at_save |-> 0,
     pre |-> [closed |-> FALSE, done |-> "None", steps |-> None, since |-> 0]]

\* no file has been written under the filename
NoFile ==
    [protocol |-> "none", cls |-> "", state |-> [maxlen |-> None, queue |-> <<>>]]

Init ==
    /\ capacity \in {None} \cup (1..MaxCapacity)
    /\ num_steps \in {n \in 0..MaxNumSteps : NumStepsAssert(n)}
    /\ memory = NewBuffer(capacity).st.memory
    /\ last_n_transitions = NewBuffer(capacity).lnt
    /\ nextId = 1
    /\ emitted = <<>>
    /\ appended = <<>>
    /\ episode = [e \in Envs |-> 0]
    /\ alone = [e \in Envs |-> NewBuffer(capacity)]
    /\ last = [NoCall EXCEPT !.n = num_steps]
    /\ file = NoFile
    /\ saved = NotSaved
    /\ constructs = 0
    /\ loop = LoopIdle
    /\ fs = FsNone
    /\ rec = RecNone
    /\ sd = SdNone

\* assert len(last_n_transitions) == 0
FlushAssert(w) == Len(w) = 0

\* ---- ReplayBuffer.append ----
append(env_id, is_state_terminal) ==
    /\ nextId <= MaxAppends
    /\ LET exp == experience(nextId, is_state_terminal)
           r   == AppendCall(last_n_transitions,
                             [memory |-> memory, emitted |-> emitted],
                             env_id, exp, num_steps)
           a   == AppendCall(alone[env_id].lnt, alone[env_id].st,
                             env_id, exp, num_steps)
       IN /\ last_n_transitions' = r.lnt
          /\ memory' = r.st.memory
          /\ emitted' = r.st.emitted
          /\ alone' = [alone EXCEPT ![env_id] = a]
          /\ last' = [NoCall EXCEPT !.op = "append", !.env_id = env_id,
                         !.is_state_terminal = is_state_terminal, !.id = nextId,
                         !.window = Peek(last_n_transitions, env_id),
                         !.windows = last_n_transitions,
                         !.items = memory.items, !.nemitted = Len(emitted),
                         !.error = IF is_state_terminal /\ ~FlushAssert(r.lnt[env_id])
                                   THEN "AssertionError" ELSE ""]
    /\ appended' = Append(appended,
           [env_id |-> env_id, episode |-> episode[env_id],
            is_state_terminal |-> is_state_terminal])
    /\ episode' = IF is_state_terminal
                  THEN [episode EXCEPT ![env_id] = @ + 1]
                  ELSE episode
    /\ nextId' = nextId + 1
    /\ UNCHANGED <<capacity, num_steps, file, saved, constructs>>
    /\ UNCHANGED <<loop, fs, rec, sd>>

\* ---- ReplayBuffer.stop_current_episode ----
stop_current_episode(env_id) ==
    /\ LET r == StopCall(last_n_transitions,
                         [memory |-> memory, emitted |-> emitted],
                         env_id, num_steps)
           a == StopCall(alone[env_id].lnt, alone[env_id].st, env_id, num_steps)
       IN /\ last_n_transitions' = r.lnt
          /\ memory' = r.st.memory
          /\ emitted' = r.st.emitted
          /\ alone' = [alone EXCEPT ![env_id] = a]
          /\ last' = [NoCall EXCEPT !.op = "stop_current_episode",
                         !.env_id = env_id,
                         !.window = Peek(last_n_transitions, env_id),
                         !.windows = last_n_transitions,
                         !.items = memory.items, !.nemitted = Len(emitted),
                         !.error = IF ~FlushAssert(r.lnt[env_id])
                                   THEN "AssertionError" ELSE ""]
    /\ episode' = IF Peek(last_n_transitions, env_id) # <<>>
                  THEN [episode EXCEPT ![env_id] = @ + 1]
                  ELSE episode
    /\ UNCHANGED <<capacity, num_steps, nextId, appended, file, saved, constructs>>
    /\ UNCHANGED <<loop, fs, rec, sd>>

\* ---- ReplayBuffer.sample ----
\* RandomAccessQueue.sample(k): k distinct positions of the queue
QueueSample(q, k) == {s \in SUBSET (1..Len(q.items)) : Cardinality(s) = k}

\* assert len(self.memory) >= num_experiences
SampleAssertOffByOne(q, k) == Len(q.items) + 1 >= k
SampleAssert(q, k) == Len(q.items) >= k

\* return self.memory.sample(num_experiences): the possible batches
SampleBodyOneLess(q, k) == QueueSample(q, IF k > 0 THEN k - 1 ELSE 0)
SampleBody(q, k) == QueueSample(q, k)

\* RandomAccessQueue.sample(k) returns items of the queue and removes none
QueueAfterSample(q, s) == q

\* the items of a queue without those at the positions s
RECURSIVE KeepOthers(_, _, _)
KeepOthers(items, s, i) ==
    IF i > Len(items) THEN <<>>
    ELSE IF i \in s THEN KeepOthers(items, s, i + 1)
         ELSE <<items[i]>> \o KeepOthers(items, s, i + 1)

\* what ReplayBuffer.sample leaves of the windows and of the queue when it
\* returns the batch at the positions s: it only calls self.memory.sample
SampleCallConsumes(lnt, q, s) ==
    [lnt |-> lnt, memory |-> [q EXCEPT !.items = KeepOthers(q.items, s, 1)]]
SampleCall(lnt, q, s) == [lnt |-> lnt, memory |-> QueueAfterSample(q, s)]

sample(num_experiences) ==
    /\ LET call == [NoCall EXCEPT !.op = "sample", !.k = num_experiences,
                       !.windows = last_n_transitions,
                       !.items = memory.items, !.nemitted = Len(emitted)]
       IN IF ~SampleAssert(memory, num_experiences)
          THEN /\ last' = [call EXCEPT !.error = "AssertionError"]
               /\ UNCHANGED <<memory, last_n_transitions>>
          ELSE IF num_experiences > Len(memory.items)
               THEN /\ last' = [call EXCEPT !.error = "InsufficientDataError"]
                    /\ UNCHANGED <<memory, last_n_transitions>>
               ELSE \E s \in SampleBody(memory, num_experiences) :
                        /\ last' = [call EXCEPT !.ret = s]
                        /\ memory' = SampleCall(last_n_transitions, memory, s).memory
                        /\ last_n_transitions' =
                               SampleCall(last_n_transitions, memory, s).lnt
    /\ UNCHANGED <<capacity, num_steps, nextId,
                   emitted, appended, episode, alone, file, saved, constructs>>
    /\ UNCHANGED <<loop, fs, rec, sd>>

Next ==
    \/ \E e \in Envs, t \in BOOLEAN : append(e, t)
    \/ \E e \in Envs : stop_current_episode(e)
    \/ \E k \in 0..MaxSample : sample(k)

Spec == Init /\ [][Next]_vars

\* ---- ReplayBuffer.save / ReplayBuffer.load ----
\* pickle.dump / pickle.load of an object: its class and its state
Pickle(obj) ==
    [protocol |-> "pickle", cls |-> obj.cls,
     state |-> [maxlen |-> obj.maxlen, queue |-> obj.items]]
Unpickle(f) ==
    [cls |-> f.cls, items |-> f.state.queue, maxlen |-> f.state.maxlen]

\* RandomAccessQueue(iterable, maxlen=maxlen): the newest maxlen items, in order
QueueFromIterable(items, maxlen) ==
    [cls |-> "RandomAccessQueue",
     items |-> IF maxlen # None THEN Suffix(items, maxlen) ELSE items,
     maxlen |-> maxlen]

\* isinstance(self.memory, collections.deque)
IsLegacyNever(obj) == FALSE
IsLegacy(obj) == obj.cls = "deque"

\* body of ReplayBuffer.load: the new value of self.memory
LoadBodyLocal(self_memory, f) == self_memory
LoadBody(self_memory, f) ==
    LET obj == Unpickle(f) IN
    IF IsLegacy(obj) THEN QueueFromIterable(obj.items, obj.maxlen) ELSE obj

save ==
    /\ file' = Pickle(memory)
    /\ saved' = [origin |-> "save", items |-> memory.items, maxlen |-> memory.maxlen]
    /\ last' = [NoCall EXCEPT !.op = "save", !.windows = last_n_transitions,
                   !.items = memory.items, !.nemitted = Len(emitted),
                   !.n = num_steps, !.cap = capacity]
    /\ UNCHANGED <<capacity, num_steps, memory, last_n_transitions, nextId,
                   emitted, appended, episode, alone, constructs>>
    /\ UNCHANGED <<loop, fs, rec, sd>>

\* ReplayBuffer.load on the buffer self = [capacity, num_steps, memory,
\* last_n_transitions]: only self.memory is assigned
LoadCallResetsWindows(self, f) ==
    [self EXCEPT !.memory = LoadBody(self.memory, f),
                 !.last_n_transitions = <<>>]
LoadCall(self, f) == [self EXCEPT !.memory = LoadBody(self.memory, f)]

load ==
    /\ LET call == [NoCall EXCEPT !.op = "load", !.windows = last_n_transitions,
                       !.items = memory.items, !.nemitted = Len(emitted),
                       !.n = num_steps, !.cap = capacity]
           self == [capacity |-> capacity, num_steps |-> num_steps,
                    memory |-> memory, last_n_transitions |-> last_n_transitions]
       IN IF file = NoFile
          THEN /\ last' = [call EXCEPT !.error = "IOError"]
               /\ UNCHANGED <<capacity, num_steps, memory, last_n_transitions>>
          ELSE /\ last' = [call EXCEPT !.read = saved]
               /\ capacity' = LoadCall(self, file).capacity
               /\ num_steps' = LoadCall(self, file).num_steps
               /\ memory' = LoadCall(self, file).memory
               /\ last_n_transitions' = LoadCall(self, file).last_n_transitions
    /\ UNCHANGED <<nextId,
                   emitted, appended, episode, alone, file, saved, constructs>>
    /\ UNCHANGED <<loop, fs, rec, sd>>

\* a file written by a v0.2 buffer, whose memory was a collections.deque with
\* maxlen = capacity, holding what this buffer's queue holds
legacy_file ==
    /\ memory.cls = "RandomAccessQueue"
    /\ file' = Pickle([cls |-> "deque", items |-> memory.items,
                       maxlen |-> memory.maxlen])
    /\ saved' = [origin |-> "v0.2", items |-> memory.items, maxlen |-> memory.maxlen]
    /\ UNCHANGED <<capacity, num_steps, memory, last_n_transitions, nextId,
                   emitted, appended, episode, alone, last, constructs>>
    /\ UNCHANGED <<loop, fs, rec, sd>>

\* a file that holds the pickle of a plain list of stored transitions
foreign_file ==
    /\ memory.cls = "RandomAccessQueue"
    /\ file' = Pickle([cls |-> "list", items |-> memory.items, maxlen |-> None])
    /\ saved' = [origin |-> "foreign", items |-> memory.items, maxlen |-> None]
    /\ UNCHANGED <<capacity, num_steps, memory, last_n_transitions, nextId,
                   emitted, appended, episode, alone, last, constructs>>
    /\ UNCHANGED <<loop, fs, rec, sd>>

\* ---- ReplayBuffer(capacity=cap, num_steps=n): a new buffer replaces the old ----
construct(cap, n) ==
    /\ constructs < MaxConstructs
    /\ constructs' = constructs + 1
    /\ LET call == [NoCall EXCEPT !.n = n, !.windows = last_n_transitions,
                       !.items = memory.items, !.nemitted = Len(emitted)]
       IN IF ~NumStepsAssert(n)
          THEN /\ last' = [call EXCEPT !.error = "AssertionError"]
               /\ UNCHANGED <<capacity, num_steps, memory, last_n_transitions,
                              emitted, episode, alone>>
          ELSE /\ last' = call
               /\ capacity' = cap
               /\ num_steps' = n
               /\ memory' = NewBuffer(cap).st.memory
               /\ last_n_transitions' = NewBuffer(cap).lnt
               /\ emitted' = <<>>
               /\ alone' = [e \in Envs |-> NewBuffer(cap)]
               /\ episode' = [e \in Envs |->
                                 IF Peek(last_n_transitions, e) # <<>>
                                 THEN episode[e] + 1 ELSE episode[e]]
    /\ UNCHANGED <<nextId, appended, file, saved>>
    /\ UNCHANGED <<loop, fs, rec, sd>>

\* one buffer, one env_id, and the file: written by save, by a v0.2 buffer or
\* by something else, and read by load
NextPersist ==
    \/ \E t \in BOOLEAN : append(0, t)
    \/ stop_current_episode(0)
    \/ save
    \/ load
    \/ legacy_file
    \/ foreign_file

SpecPersist == Init /\ [][NextPersist]_vars

\* a buffer that saves, and a fresh buffer constructed afterwards that loads
NextFresh ==
    \/ \E t \in BOOLEAN : nextId <= MaxFreshAppends /\ append(0, t)
    \/ save
    \/ load
    \/ \E cap \in {None} \cup (1..MaxCapacity), n \in 0..MaxNumSteps :
           construct(cap, n)

SpecFresh == Init /\ [][NextFresh]_vars

\* ---- what the histories say ----
\* the lists emitted by the most recent call
EmittedByLast == SubSeq(emitted, last.nemitted + 1, Len(emitted))

\* the window of env_id e now, and before the most recent call
Window(e) == Peek(last_n_transitions, e)
OldWindow(e) == Peek(last.windows, e)

\* the window the most recent append worked on, with the new experience pushed
PushedWindow ==
    Suffix(Append(last.window, experience(last.id, last.is_state_terminal)),
           num_steps)

\* the suffixes of w, longest first
SuffixesOf(w) == [i \in 1..Len(w) |-> SubSeq(w, i, Len(w))]

\* the experiences appended to env_id e so far, oldest first
RECURSIVE ExperiencesOf(_, _)
ExperiencesOf(e, n) ==
    IF n = 0 THEN <<>>
    ELSE IF appended[n].env_id = e
         THEN Append(ExperiencesOf(e, n - 1),
                     experience(n, appended[n].is_state_terminal))
         ELSE ExperiencesOf(e, n - 1)

IsAppend == last.op = "append"
IsStop == last.op = "stop_current_episode"

\* C1: the queue never holds more than capacity stored transitions; with
\* capacity None nothing is evicted, the queue holds every emitted one.
C1_CapacityBound ==
    /\ capacity # None => Len(memory.items) <= capacity
    /\ capacity = None => Len(memory.items) = Len(emitted)

\* C1 witness: a bounded queue at capacity after more emissions than it holds
C1_Witness ==
    /\ capacity # None
    /\ Len(emitted) > capacity
    /\ Len(memory.items) = capacity

\* C2: eviction is FIFO: the queue is the last min(C, E) of the E emitted stored
\* transitions in emission order, so its size is min(C, E) and after C+1
\* emissions the first emitted one is gone.
C2_FifoEviction ==
    LET E == Len(emitted) IN
    IF capacity = None
    THEN memory.items = emitted
    ELSE /\ memory.items = Suffix(emitted, Min(capacity, E))
         /\ Len(memory.items) = Min(capacity, E)
         /\ E > capacity =>
                \A i \in 1..Len(memory.items) : memory.items[i] # emitted[1]

\* C2 witness: the first emitted stored transition has been evicted
C2_Witness ==
    /\ capacity # None
    /\ Len(emitted) = capacity + 1
    /\ memory.items = Tail(emitted)

\* C3: a terminal append on a window that has length L with the new transition
\* emits exactly the L suffixes of that window, longest first, and empties the
\* window; capacity 3, num_steps 2, appends t1, t2, t3(terminal) leave the
\* queue [[t1,t2],[t2,t3],[t3]].
C3_TerminalFlush ==
    /\ (IsAppend /\ last.is_state_terminal) =>
           /\ EmittedByLast = SuffixesOf(PushedWindow)
           /\ Len(EmittedByLast) = Len(PushedWindow)
           /\ Window(last.env_id) = <<>>
    /\ \A e \in Envs :
           ( /\ capacity = 3 /\ num_steps = 2
             /\ appended = <<[env_id |-> e, episode |-> 0, is_state_terminal |-> FALSE],
                             [env_id |-> e, episode |-> 0, is_state_terminal |-> FALSE],
                             [env_id |-> e, episode |-> 0, is_state_terminal |-> TRUE]>>
             /\ episode[e] = 1 )
           => memory.items =
                  << <<experience(1, FALSE), experience(2, FALSE)>>,
                     <<experience(2, FALSE), experience(3, TRUE)>>,
                     <<experience(3, TRUE)>> >>

\* C3 witness: a terminal append that flushed a window of two or more
C3_Witness ==
    /\ IsAppend /\ last.is_state_terminal
    /\ Len(PushedWindow) >= 2
    /\ Len(EmittedByLast) = Len(PushedWindow)

\* C4: a non-terminal append to a window that already has num_steps entries
\* emits exactly one stored transition, the num_steps most recent experiences
\* of that env_id oldest first; the queue grows by one unless it is at capacity.
C4_SlidingWindow ==
    (IsAppend /\ ~last.is_state_terminal /\ Len(last.window) = num_steps) =>
        /\ EmittedByLast =
               << Suffix(ExperiencesOf(last.env_id, Len(appended)), num_steps) >>
        /\ Len(EmittedByLast[1]) = num_steps
        /\ Len(memory.items) =
               IF Len(last.items) = capacity THEN capacity ELSE Len(last.items) + 1

\* C4 witness: such an append, on a window of two or more, slid the window
C4_Witness ==
    /\ IsAppend /\ ~last.is_state_terminal
    /\ Len(last.window) = num_steps /\ num_steps >= 2
    /\ Len(EmittedByLast) = 1

\* C5: a non-terminal append that leaves the window shorter than num_steps
\* emits nothing: the queue is unchanged and only that window grows.
C5_NoEmissionWhileShort ==
    (IsAppend /\ ~last.is_state_terminal /\ Len(last.window) + 1 < num_steps) =>
        /\ memory.items = last.items
        /\ EmittedByLast = <<>>
        /\ Window(last.env_id) =
               Append(last.window, experience(last.id, FALSE))
        /\ \A e \in Envs \ {last.env_id} : Window(e) = OldWindow(e)

\* C5 witness: the queue was not empty and a short window grew to two
C5_Witness ==
    /\ IsAppend /\ ~last.is_state_terminal
    /\ Len(last.window) + 1 < num_steps
    /\ Len(Window(last.env_id)) = 2
    /\ memory.items # <<>>

\* C6: stop_current_episode on a window of length L, 0 < L < num_steps, emits
\* the partial window once and then its shorter suffixes: L stored transitions
\* of lengths L, L-1, ..., 1 in that order, and leaves the window empty.
C6_StopFlushesPartial ==
    (IsStop /\ 0 < Len(last.window) /\ Len(last.window) < num_steps) =>
        /\ EmittedByLast = SuffixesOf(last.window)
        /\ \A i \in 1..Len(EmittedByLast) :
               Len(EmittedByLast[i]) = Len(last.window) - i + 1
        /\ Window(last.env_id) = <<>>

\* C6 witness: a partial window of two or more was stopped
C6_Witness ==
    /\ IsStop
    /\ 2 <= Len(last.window) /\ Len(last.window) < num_steps
    /\ Len(EmittedByLast) = Len(last.window)

\* two emitted stored transitions are the same window: same first and same
\* last experience (an experience belongs to one env_id)
SameWindow(s, t) == s[1].id = t[1].id /\ Last(s).id = Last(t).id

\* C7: stop_current_episode on a full window (already emitted by the append
\* that completed it) does not emit it again: it emits the num_steps-1 shorter
\* suffixes and empties the window; no window is ever emitted twice.
C7_NoDuplicateEmission ==
    /\ (IsStop /\ Len(last.window) = num_steps) =>
           /\ EmittedByLast = Tail(SuffixesOf(last.window))
           /\ Len(EmittedByLast) = num_steps - 1
           /\ Window(last.env_id) = <<>>
    /\ \A i, j \in 1..Len(emitted) :
           i < j => ~SameWindow(emitted[i], emitted[j])

\* C7 witness: a full window of two or more, emitted by the preceding append,
\* was stopped
C7_Witness ==
    /\ IsStop
    /\ Len(last.window) = num_steps /\ num_steps >= 2
    /\ \E i \in 1..last.nemitted : emitted[i] = last.window
    /\ Len(EmittedByLast) = num_steps - 1

\* the episode of experience i has ended (terminal append or stop_current_episode)
EpisodeEnded(i) == appended[i].episode < episode[appended[i].env_id]

\* experiences i and j belong to the same episode of the same env_id
SameEpisode(i, j) ==
    /\ appended[i].env_id = appended[j].env_id
    /\ appended[i].episode = appended[j].episode

\* C8: every emitted stored transition has between 1 and num_steps entries,
\* and one shorter than num_steps ends with the final experience of its episode.
C8_ShortOnlyAtEpisodeEnd ==
    \A k \in 1..Len(emitted) :
        LET s == emitted[k]
            r == Last(s).id
        IN /\ 1 <= Len(s) /\ Len(s) <= num_steps
           /\ Len(s) < num_steps =>
                  /\ EpisodeEnded(r)
                  /\ \A j \in (r + 1)..Len(appended) : ~SameEpisode(r, j)

\* C8 witness: a full and a short stored transition were emitted, and an
\* episode started after the short one
C8_Witness ==
    /\ num_steps >= 2
    /\ \E k \in 1..Len(emitted) : Len(emitted[k]) = num_steps
    /\ \E k \in 1..Len(emitted) :
           /\ Len(emitted[k]) < num_steps
           /\ \E j \in 1..Len(appended) :
                  /\ j > Last(emitted[k]).id
                  /\ appended[j].env_id = appended[Last(emitted[k]).id].env_id

\* the number of queue entries that contain experience i
CountContaining(i) ==
    Cardinality({k \in 1..Len(memory.items) :
                    \E j \in 1..Len(memory.items[k]) : memory.items[k][j].id = i})

\* the 1-based position of experience i in its episode
PosInEpisode(i) == Cardinality({j \in 1..i : SameEpisode(i, j)})

\* C9 as stated: with unbounded capacity an experience whose episode has ended
\* is contained in exactly one stored transition of the queue.
C9_ExactlyOneStored ==
    capacity = None =>
        \A i \in 1..Len(appended) : EpisodeEnded(i) => CountContaining(i) = 1

\* C9 amended: with unbounded capacity an experience whose episode has ended is
\* contained in exactly min(num_steps, p) stored transitions of the queue, p its
\* 1-based position in its episode (at least one; exactly one when num_steps = 1
\* or p = 1).
C9_StoredMinStepsPos ==
    capacity = None =>
        \A i \in 1..Len(appended) :
            EpisodeEnded(i) =>
                /\ CountContaining(i) = Min(num_steps, PosInEpisode(i))
                /\ CountContaining(i) >= 1

\* C9 witness: an ended episode with one experience stored once and another
\* stored twice
C9_Witness ==
    /\ capacity = None
    /\ \E i, j \in 1..Len(appended) :
           /\ EpisodeEnded(i) /\ EpisodeEnded(j)
           /\ CountContaining(i) = 1
           /\ CountContaining(j) = 2

\* the stored transitions emitted for env_id e, in emission order
EnvOf(s) == appended[s[1].id].env_id
RECURSIVE EmittedFor(_, _)
EmittedFor(e, n) ==
    IF n = 0 THEN <<>>
    ELSE IF EnvOf(emitted[n]) = e
         THEN Append(EmittedFor(e, n - 1), emitted[n])
         ELSE EmittedFor(e, n - 1)

\* C10: with two env_ids interleaving on one buffer, a stored transition holds
\* experiences of one env_id only, what is emitted for an env_id (and its
\* window) is what a buffer receiving that env_id's calls alone emits (and
\* holds), and a call on one env_id leaves the other windows unchanged.
C10_EnvIndependence ==
    /\ \A k \in 1..Len(emitted) :
           \A j \in 1..Len(emitted[k]) :
               appended[emitted[k][j].id].env_id = EnvOf(emitted[k])
    /\ \A e \in Envs :
           /\ EmittedFor(e, Len(emitted)) = alone[e].st.emitted
           /\ Window(e) = Peek(alone[e].lnt, e)
    /\ (IsAppend \/ IsStop) =>
           \A e \in Envs \ {last.env_id} : Window(e) = OldWindow(e)

\* C10 witness: appends of two env_ids alternated and both env_ids emitted
C10_Witness ==
    /\ Len(appended) >= 3
    /\ appended[1].env_id # appended[2].env_id
    /\ appended[3].env_id = appended[1].env_id
    /\ \A e \in Envs : EmittedFor(e, Len(emitted)) # <<>>
    /\ \E e \in Envs : Window(e) # <<>>

IsSample == last.op = "sample"

\* C11: sample(k) with k greater than the number of stored transitions fails
\* at that call with a failed assertion, returns no batch and leaves the queue
\* and every window unchanged.
C11_SampleTooMany ==
    (IsSample /\ last.k > Len(last.items)) =>
        /\ last.error = "AssertionError"
        /\ last.ret = {}
        /\ memory.items = last.items
        /\ last_n_transitions = last.windows

\* C11 witness: two were asked of a queue holding one, a window in progress
C11_Witness ==
    /\ IsSample /\ last.k = 2 /\ Len(memory.items) = 1
    /\ last.error # ""
    /\ \E e \in Envs : Window(e) # <<>>

\* C12: sample(k) with 0 <= k <= size returns k stored transitions from k
\* distinct positions of the queue, each currently held in it (emitted and not
\* evicted), and they are k distinct stored transitions.
C12_SampleDistinct ==
    (IsSample /\ last.k <= Len(last.items)) =>
        /\ last.error = ""
        /\ Cardinality(last.ret) = last.k
        /\ last.ret \subseteq 1..Len(memory.items)
        /\ \A p \in last.ret :
               \E j \in 1..Len(emitted) :
                   /\ j > Len(emitted) - Len(memory.items)
                   /\ emitted[j] = memory.items[p]
        /\ \A p, q \in last.ret : p # q => memory.items[p] # memory.items[q]

\* C12 witness: two of three stored transitions were sampled
C12_Witness ==
    /\ IsSample /\ last.k = 2 /\ Len(memory.items) = 3
    /\ Cardinality(last.ret) = 2

\* C14: with num_steps = 1 every append, terminal or not, emits exactly one
\* stored transition holding just the appended experience, and
\* stop_current_episode emits nothing.
C14_OneStepReplay ==
    num_steps = 1 =>
        /\ IsAppend =>
               /\ EmittedByLast =
                      << <<experience(last.id, last.is_state_terminal)>> >>
               /\ Len(emitted) = Len(appended)
        /\ IsStop => (EmittedByLast = <<>> /\ memory.items = last.items)

\* C14 witness: num_steps = 1, a terminal append happened and a window holding
\* a non-terminal experience was stopped
C14_Witness ==
    /\ num_steps = 1
    /\ IsStop /\ last.window # <<>>
    /\ \E i \in 1..Len(appended) : appended[i].is_state_terminal

\* the buffer state now, as the call operators take it
BufferNow ==
    [lnt |-> last_n_transitions, st |-> [memory |-> memory, emitted |-> emitted]]

\* C15: stop_current_episode on an empty window emits nothing, raises nothing
\* and leaves the queue and the windows as they were; a second call right
\* after it changes nothing.
C15_StopOnEmptyWindow ==
    (IsStop /\ last.window = <<>>) =>
        /\ EmittedByLast = <<>>
        /\ last.error = ""
        /\ memory.items = last.items
        /\ \A e \in Envs : Window(e) = OldWindow(e)
        /\ StopCall(last_n_transitions, BufferNow.st, last.env_id, num_steps)
               = BufferNow

\* C15 witness: an env_id whose episode had ended was stopped, queue not empty
C15_Witness ==
    /\ IsStop /\ last.window = <<>>
    /\ last.env_id \in DOMAIN last.windows
    /\ episode[last.env_id] >= 1
    /\ memory.items # <<>>

\* every experience in a window belongs to an episode that has not ended
WindowsAreFresh ==
    \A e \in DOMAIN last_n_transitions :
        \A j \in 1..Len(last_n_transitions[e]) :
            /\ appended[last_n_transitions[e][j].id].env_id = e
            /\ ~EpisodeEnded(last_n_transitions[e][j].id)

\* C16 as stated: after stop_current_episode(env_id) the mapping has no key
\* env_id, and windows hold no experience of a stopped episode.
C16_StopRemovesKey ==
    /\ IsStop => last.env_id \notin DOMAIN last_n_transitions
    /\ WindowsAreFresh

\* C16 amended: after stop_current_episode(env_id) the mapping has the key
\* env_id with an empty window (the entry is kept, or created, not removed),
\* and windows hold no experience of a stopped episode, so the next append to
\* env_id starts from an empty window.
C16_StopEmptiesWindow ==
    /\ IsStop =>
           /\ last.env_id \in DOMAIN last_n_transitions
           /\ last_n_transitions[last.env_id] = <<>>
    /\ WindowsAreFresh

\* C16 witness: the first append after a stopped episode of the same env_id
C16_Witness ==
    /\ IsAppend /\ ~last.is_state_terminal
    /\ last.window = <<>>
    /\ \E i \in 1..Len(appended) :
           /\ appended[i].env_id = last.env_id
           /\ ~appended[i].is_state_terminal
           /\ EpisodeEnded(i)
    /\ Window(last.env_id) = <<experience(last.id, FALSE)>>

\* C20: append and stop_current_episode never raise (their assertions that
\* the window is empty after the flush always hold); of the three calls only
\* sample with k greater than the size raises.
C20_OnlySampleRaises ==
    /\ (IsAppend \/ IsStop) => last.error = ""
    /\ (IsAppend /\ last.is_state_terminal) => Window(last.env_id) = <<>>
    /\ IsStop => Window(last.env_id) = <<>>
    /\ (IsSample /\ last.error # "") => last.k > Len(last.items)

\* C20 witness: a terminal append flushed a window of two or more and passed
\* its assertion
C20_Witness ==
    /\ IsAppend /\ last.is_state_terminal
    /\ Len(last.window) >= 1
    /\ last.error = ""
    /\ Window(last.env_id) = <<>>

IsLoad == last.op = "load"

\* C13: save followed by load, on the same buffer or on a fresh one, gives a
\* queue with the saved stored transitions in the same order and the same len.
C13_RoundTrip ==
    (IsLoad /\ last.read.origin = "save") =>
        /\ last.error = ""
        /\ memory.items = last.read.items
        /\ Len(memory.items) = Len(last.read.items)

\* C13 witness: a fresh buffer loaded a file holding two stored transitions
C13_Witness ==
    /\ IsLoad /\ last.read.origin = "save"
    /\ constructs = 1
    /\ Len(last.read.items) = 2
    /\ last.items = <<>>
    /\ memory.items = last.read.items

\* C17: load of a file in the legacy layout (a bounded deque) gives the
\* current queue representation with the same stored transitions, order and
\* maximum length: the very queue that load of the current layout with these
\* contents gives.
C17_LegacyUpgrade ==
    (IsLoad /\ last.read.origin = "v0.2") =>
        LET q == [cls |-> "RandomAccessQueue", items |-> last.read.items,
                  maxlen |-> last.read.maxlen]
        IN /\ last.error = ""
           /\ memory = q
           /\ memory = LoadBody(memory, Pickle(q))

\* C17 witness: a legacy file of a bounded deque holding two stored
\* transitions was loaded into a buffer whose queue held something else
C17_Witness ==
    /\ IsLoad /\ last.read.origin = "v0.2"
    /\ last.read.maxlen # None
    /\ Len(last.read.items) = 2
    /\ last.items # last.read.items
    /\ memory.cls = "RandomAccessQueue"

\* C18: load of a file that is in neither the current nor the legacy layout
\* fails with UnknownFormatError and does not install the object as the queue.
C18_UnknownFormatRejected ==
    (IsLoad /\ last.read.origin = "foreign") =>
        /\ last.error = "UnknownFormatError"
        /\ memory.cls = "RandomAccessQueue"

\* C19: construction with num_steps <= 0 fails before a queue or a window
\* mapping exists, so no buffer has num_steps <= 0; construction with
\* num_steps >= 1 gives an empty queue and no windows.
C19_ConstructionChecksNumSteps ==
    /\ num_steps >= 1
    /\ (last.op = "init" /\ last.n <= 0) =>
           /\ last.error = "AssertionError"
           /\ memory.items = last.items
           /\ last_n_transitions = last.windows
    /\ (last.op = "init" /\ last.n >= 1) =>
           /\ last.error = ""
           /\ num_steps = last.n
           /\ memory = [cls |-> "RandomAccessQueue", items |-> <<>>,
                        maxlen |-> capacity]
           /\ DOMAIN last_n_transitions = {}

\* C19 witness: ReplayBuffer(num_steps=0) was attempted while a buffer with a
\* stored transition existed
C19_Witness ==
    /\ last.op = "init" /\ last.n = 0
    /\ last.error = "AssertionError"
    /\ memory.items # <<>>

\* ---- the capacity after a load ----
\* C21: a buffer constructed with capacity C never holds more than C stored
\* transitions, also after it loaded a file saved by a buffer of another
\* capacity and after the appends that follow the load
C21_CapacitySurvivesLoad ==
    capacity # None => Len(memory.items) <= capacity

\* ---- the windows and the emissions, at every moment ----
\* the experiences of env_id e appended since its window was last flushed
CurrentOf(e) ==
    SelectSeq(ExperiencesOf(e, Len(appended)),
              LAMBDA x : appended[x.id].episode = episode[e])

\* C22: a window never has more than num_steps entries; a push into a full
\* window drops exactly its oldest entry, without error; the window always
\* holds the min(num_steps, pushes since the last flush) most recent
\* experiences of its env_id, in append order.
C22_WindowBound ==
    /\ \A e \in Envs :
           /\ Len(Window(e)) <= num_steps
           /\ Len(Window(e)) = Min(num_steps, Len(CurrentOf(e)))
           /\ Window(e) = Suffix(CurrentOf(e), num_steps)
    /\ (IsAppend /\ ~last.is_state_terminal /\ Len(last.window) = num_steps) =>
           /\ last.error = ""
           /\ Window(last.env_id) =
                  Append(Tail(last.window), experience(last.id, FALSE))

\* C22 witness: a push into a full window of two or more
C22_Witness ==
    /\ IsAppend /\ ~last.is_state_terminal
    /\ num_steps >= 2 /\ Len(last.window) = num_steps
    /\ Window(last.env_id) = Append(Tail(last.window), experience(last.id, FALSE))

\* the number of emitted stored transitions that start with experience i
HeadCount(i) == Cardinality({k \in 1..Len(emitted) : emitted[k][1].id = i})

\* the experiences of episode p of env_id e, and the emissions that start in it
RawsOf(e, p) ==
    {i \in 1..Len(appended) : appended[i].env_id = e /\ appended[i].episode = p}
EmissionsOf(e, p) ==
    {k \in 1..Len(emitted) : emitted[k][1].id \in RawsOf(e, p)}

\* C24: every experience is the first entry of at most one emitted stored
\* transition, and of exactly one once its episode has ended; an ended episode
\* of k experiences has contributed exactly k emissions.
C24_HeadUnique ==
    /\ \A i \in 1..Len(appended) :
           /\ HeadCount(i) <= 1
           /\ EpisodeEnded(i) => HeadCount(i) = 1
    /\ \A e \in Envs : \A p \in 0..(episode[e] - 1) :
           Cardinality(EmissionsOf(e, p)) = Cardinality(RawsOf(e, p))

\* C24 witness: an ended episode of three experiences with its three emissions
C24_Witness ==
    /\ num_steps = 2 /\ episode[0] = 1
    /\ Cardinality(RawsOf(0, 0)) = 3
    /\ Cardinality(EmissionsOf(0, 0)) = 3

\* experience j is the one appended to the env_id of i right after i
NextOfEnv(i, j) ==
    /\ i < j /\ appended[i].env_id = appended[j].env_id
    /\ \A m \in (i + 1)..(j - 1) : appended[m].env_id # appended[i].env_id

\* C25: (every episode being ended by a terminal append or by
\* stop_current_episode before the next one starts) every stored transition is
\* a run of consecutive experiences of one env_id and of one episode, oldest
\* first, and a terminal experience is always its last entry.
C25_OneEpisodeRuns ==
    /\ \A k \in 1..Len(emitted) : \A j \in 1..Len(emitted[k]) :
           /\ emitted[k][j].is_state_terminal
                  = appended[emitted[k][j].id].is_state_terminal
           /\ j < Len(emitted[k]) =>
                  /\ NextOfEnv(emitted[k][j].id, emitted[k][j + 1].id)
                  /\ SameEpisode(emitted[k][j].id, emitted[k][j + 1].id)
                  /\ ~emitted[k][j].is_state_terminal
    /\ \A q \in 1..Len(memory.items) :
           \E k \in 1..Len(emitted) : memory.items[q] = emitted[k]

\* C25 witness: a stored transition of the second episode of an env_id, of two
\* entries, that ends with a terminal experience
C25_Witness ==
    \E q \in 1..Len(memory.items) :
        /\ Len(memory.items[q]) >= 2
        /\ Last(memory.items[q]).is_state_terminal
        /\ appended[memory.items[q][1].id].episode >= 1

\* the emissions whose newest entry is experience i
EndingWith(i) == {k \in 1..Len(emitted) : Last(emitted[k]).id = i}

\* C26: between calls, a window of exactly num_steps entries is what the most
\* recent append to its env_id emitted; a non-empty window of fewer entries
\* has never been emitted.
C26_FullWindowEmitted ==
    \A e \in Envs :
        /\ Len(Window(e)) = num_steps =>
               /\ Last(Window(e)) = Last(ExperiencesOf(e, Len(appended)))
               /\ \E k \in 1..Len(emitted) :
                      /\ EndingWith(Last(Window(e)).id) = {k}
                      /\ emitted[k] = Window(e)
        /\ (0 < Len(Window(e)) /\ Len(Window(e)) < num_steps) =>
               /\ EndingWith(Last(Window(e)).id) = {}
               /\ \A k \in 1..Len(emitted) : emitted[k] # Window(e)

\* C26 witness: a full window of two on one env_id, a shorter one on the other
C26_Witness ==
    /\ num_steps = 2
    /\ Len(Window(0)) = 2
    /\ Len(Window(1)) = 1

\* C27: a sample(k) that succeeds is read-only: the queue keeps its stored
\* transitions, their order and its length, no window changes, nothing is
\* emitted, and the sampled stored transitions can be sampled again.
C27_SampleReadOnly ==
    (IsSample /\ last.error = "") =>
        /\ memory.items = last.items
        /\ Len(memory.items) = Len(last.items)
        /\ last_n_transitions = last.windows
        /\ Len(emitted) = last.nemitted
        /\ Cardinality(last.ret) = last.k
        /\ \A p \in last.ret :
               p \in 1..Len(memory.items) /\ memory.items[p] = last.items[p]

\* C27 witness: a batch of two sampled while a window is in progress
C27_Witness ==
    /\ IsSample /\ last.error = ""
    /\ last.k = 2 /\ Cardinality(last.ret) = 2
    /\ \E e \in Envs : Window(e) # <<>>
    /\ memory.items = last.items

\* ---- what save and load touch ----
\* experience i is an entry of some emitted stored transition
WasEmitted(i) ==
    \E k \in 1..Len(emitted) : \E j \in 1..Len(emitted[k]) : emitted[k][j].id = i

\* experience i is an entry of some stored transition held by the file
InFile(i) ==
    \E q \in 1..Len(file.state.queue) :
        \E j \in 1..Len(file.state.queue[q]) : file.state.queue[q][j].id = i

\* C28: save writes the queue only and changes nothing in the buffer, so the
\* experiences of a window that were never emitted are not in the file; load
\* replaces the queue only: num_steps, capacity and every window stay, and a
\* window in progress goes on and emits into the loaded queue.
C28_SaveLoadFrame ==
    /\ last.op = "save" =>
           /\ file.state.queue = last.items
           /\ memory.items = last.items
           /\ last_n_transitions = last.windows
           /\ capacity = last.cap /\ num_steps = last.n
           /\ Len(emitted) = last.nemitted
    /\ \A i \in 1..Len(appended) : ~WasEmitted(i) => ~InFile(i)
    /\ (IsLoad /\ last.error = "") =>
           /\ memory.items = last.read.items
           /\ last_n_transitions = last.windows
           /\ capacity = last.cap /\ num_steps = last.n
           /\ Len(emitted) = last.nemitted
    /\ (IsAppend /\ ~last.is_state_terminal /\ Len(PushedWindow) = num_steps) =>
           /\ EmittedByLast = <<PushedWindow>>
           /\ Window(last.env_id) = PushedWindow
           /\ memory.items =
                  IF memory.maxlen # None /\ Len(last.items) >= memory.maxlen
                  THEN Append(Tail(last.items), PushedWindow)
                  ELSE Append(last.items, PushedWindow)

\* C28 witness: the file was saved with an empty queue; a load, made while a
\* window held one experience, emptied the queue, and the next append emitted
\* the window of two into it
C28_Witness ==
    /\ IsAppend /\ ~last.is_state_terminal
    /\ capacity = None /\ num_steps = 2
    /\ Len(last.window) = 1
    /\ last.nemitted >= 1 /\ last.items = <<>>
    /\ file.state.queue = <<>> /\ file # NoFile
    /\ memory.items = <<PushedWindow>>

\* ---- the loops of append and stop_current_episode, one iteration a step ----
\* while last_n_transitions:
LoopTest(w) == w # <<>>

\* del last_n_transitions[0]
LoopDelNothing(w) == w
LoopDel(w) == Tail(w)

\* append up to its flush loop: the experience is pushed; a terminal one
\* enters the loop, another one takes the non-terminal branch and returns
append_enter(env_id, is_state_terminal) ==
    /\ loop.pc = "idle"
    /\ nextId <= MaxAppends
    /\ LET exp == experience(nextId, is_state_terminal)
           w0  == WindowOf(last_n_transitions, env_id)
           w1  == DequeAppend(w0, exp, num_steps)
           r   == AppendBody(w0, [memory |-> memory, emitted |-> emitted],
                             exp, num_steps)
       IN IF is_state_terminal
          THEN /\ last_n_transitions' =
                      [GetItem(last_n_transitions, env_id) EXCEPT ![env_id] = w1]
               /\ loop' = [pc |-> "flush", env_id |-> env_id, iters |-> 0,
                           len0 |-> Len(w1)]
               /\ UNCHANGED <<memory, emitted>>
          ELSE /\ last_n_transitions' =
                      [GetItem(last_n_transitions, env_id) EXCEPT ![env_id] = r.window]
               /\ memory' = r.st.memory
               /\ emitted' = r.st.emitted
               /\ loop' = LoopIdle
    /\ last' = [NoCall EXCEPT !.op = "append", !.env_id = env_id,
                   !.is_state_terminal = is_state_terminal, !.id = nextId,
                   !.window = Peek(last_n_transitions, env_id),
                   !.windows = last_n_transitions,
                   !.items = memory.items, !.nemitted = Len(emitted)]
    /\ appended' = Append(appended,
           [env_id |-> env_id, episode |-> episode[env_id],
            is_state_terminal |-> is_state_terminal])
    /\ episode' = IF is_state_terminal
                  THEN [episode EXCEPT ![env_id] = @ + 1]
                  ELSE episode
    /\ nextId' = nextId + 1
    /\ UNCHANGED <<capacity, num_steps, alone, file, saved, constructs, fs, rec, sd>>

\* stop_current_episode up to its drain loop: the partial window is emitted
\* and the head of the window dropped
stop_enter(env_id) ==
    /\ loop.pc = "idle"
    /\ LET w0  == WindowOf(last_n_transitions, env_id)
           st0 == [memory |-> memory, emitted |-> emitted]
           st1 == IF StopEmitsPartial(w0, num_steps) THEN MemoryAppend(st0, w0) ELSE st0
           w1  == IF StopDropsHead(w0, num_steps) THEN Tail(w0) ELSE w0
       IN /\ last_n_transitions' =
                 [GetItem(last_n_transitions, env_id) EXCEPT ![env_id] = w1]
          /\ memory' = st1.memory
          /\ emitted' = st1.emitted
          /\ loop' = [pc |-> "drain", env_id |-> env_id, iters |-> 0,
                      len0 |-> Len(w1)]
    /\ last' = [NoCall EXCEPT !.op = "stop_current_episode", !.env_id = env_id,
                   !.window = Peek(last_n_transitions, env_id),
                   !.windows = last_n_transitions,
                   !.items = memory.items, !.nemitted = Len(emitted)]
    /\ episode' = IF Peek(last_n_transitions, env_id) # <<>>
                  THEN [episode EXCEPT ![env_id] = @ + 1]
                  ELSE episode
    /\ UNCHANGED <<capacity, num_steps, nextId, appended, alone, file, saved,
                   constructs, fs, rec, sd>>

\* one iteration of either loop: the window is pushed into the queue and its
\* first entry deleted
loop_iteration ==
    /\ loop.pc \in {"flush", "drain"}
    /\ LoopTest(last_n_transitions[loop.env_id])
    /\ LET w  == last_n_transitions[loop.env_id]
           st == MemoryAppend([memory |-> memory, emitted |-> emitted], w)
       IN /\ memory' = st.memory
          /\ emitted' = st.emitted
          /\ last_n_transitions' =
                 [last_n_transitions EXCEPT ![loop.env_id] = LoopDel(w)]
    /\ loop' = [loop EXCEPT !.iters = @ + 1]
    /\ UNCHANGED <<capacity, num_steps, nextId, appended, episode, alone, last,
                   file, saved, constructs, fs, rec, sd>>

\* the loop test fails: the assert after the loop, and the call returns
loop_exit ==
    /\ loop.pc \in {"flush", "drain"}
    /\ ~LoopTest(last_n_transitions[loop.env_id])
    /\ loop' = [loop EXCEPT !.pc = "idle"]
    /\ last' = [last EXCEPT !.error =
                   IF ~FlushAssert(last_n_transitions[loop.env_id])
                   THEN "AssertionError" ELSE ""]
    /\ UNCHANGED <<capacity, num_steps, memory, last_n_transitions, nextId,
                   emitted, appended, episode, alone, file, saved, constructs,
                   fs, rec, sd>>

NextLoop ==
    \/ \E t \in BOOLEAN : append_enter(0, t)
    \/ stop_enter(0)
    \/ loop_iteration
    \/ loop_exit

\* a call that entered a loop keeps running: the interpreter executes the
\* next iteration, or the exit, of the loop it is in
SpecLoop ==
    Init /\ [][NextLoop]_vars /\ WF_vars(loop_iteration) /\ WF_vars(loop_exit)

\* C23: the flush loop of a terminal append and the drain loop of
\* stop_current_episode end after at most num_steps iterations: the loop
\* starts on a window of at most num_steps entries, each iteration removes
\* exactly one entry and adds none, and the call returns with an empty window.
C23_LoopsTerminate ==
    /\ [](/\ loop.iters <= num_steps
          /\ loop.len0 <= num_steps
          /\ loop.pc # "idle" =>
                 loop.iters + Len(Window(loop.env_id)) = loop.len0
          /\ (loop.pc = "idle" /\ last.op # "init") =>
                 /\ last.error = ""
                 /\ (last.op = "stop_current_episode" \/ last.is_state_terminal) =>
                        /\ Window(last.env_id) = <<>>
                        /\ loop.iters = loop.len0)
    /\ [][loop'.iters = loop.iters + 1 =>
              /\ Window(loop.env_id)' = Tail(Window(loop.env_id))
              /\ loop'.len0 = loop.len0]_vars
    /\ (loop.pc # "idle") ~> (loop.pc = "idle")

\* C23 witness: a terminal append whose flush loop ran num_steps = 3 times
C23_Witness ==
    /\ loop.pc = "idle" /\ last.op = "append" /\ last.is_state_terminal
    /\ num_steps = 3 /\ loop.iters = 3
    /\ Window(0) = <<>>

\* ---- FrameSkip (baselines/env_wrappers.py) ----
\* the actions a caller passes, and the rewards the wrapped env gives
Actions == {0, 1}
Rewards == {1, 2}

\* the buffer plays no part in the wrappers: one configuration of it is enough
InitWrappers == Init /\ capacity = None /\ num_steps = 1

\* if done: break
BreakNever(done) == FALSE
BreakOnDone(done) == done

\* for _ in range(self._skip): the iterations from the i-th on.  env[i] is what
\* the i-th call of self.env.step would return after observation t0 + i - 1;
\* acc holds the inner steps made so far and the loop's local variables
RECURSIVE FrameSkipLoop(_, _, _, _, _, _)
FrameSkipLoop(i, skip, action, env, t0, acc) ==
    IF i > skip THEN acc
    ELSE LET step == [action |-> action, obs |-> t0 + i, reward |-> env[i][1],
                      done |-> env[i][2], info |-> [of |-> t0 + i],
                      after_done |-> acc.inner # <<>> /\ acc.done]
             acc1 == [inner |-> Append(acc.inner, step),
                      total_reward |-> acc.total_reward + step.reward,
                      obs |-> step.obs, done |-> step.done, info |-> step.info]
         IN IF BreakOnDone(step.done)
            THEN acc1
            ELSE FrameSkipLoop(i + 1, skip, action, env, t0, acc1)

\* FrameSkip.step(action): the inner steps it makes and what it returns; with
\* skip = 0 the loop body never runs and obs is unbound at the return
FrameSkipStep(skip, action, env, t0) ==
    LET acc == FrameSkipLoop(1, skip, action, env, t0,
                   [inner |-> <<>>, total_reward |-> 0, obs |-> 0,
                    done |-> FALSE, info |-> [of |-> 0]])
    IN [inner |-> acc.inner,
        error |-> IF acc.inner = <<>> THEN "UnboundLocalError" ELSE "",
        ret |-> IF acc.inner = <<>> THEN NoReturn
                ELSE [obs |-> acc.obs, total_reward |-> acc.total_reward,
                      done |-> acc.done, info |-> acc.info]]

\* FrameSkip(env, skip)
FrameSkipInit(skip) ==
    /\ fs.op = "none"
    /\ fs' = [FsNone EXCEPT !.op = "init", !.skip = skip]
    /\ UNCHANGED <<capacity, num_steps, memory, last_n_transitions, nextId,
                   emitted, appended, episode, alone, last, file, saved,
                   constructs, loop, rec, sd>>

\* FrameSkip.step(action), the wrapped env answering each inner step with the
\* reward and the done flag env[i]
FrameSkipStepCall(action, env) ==
    /\ fs.op # "none"
    /\ fs.t < MaxInnerSteps
    /\ LET r == FrameSkipStep(fs.skip, action, env, fs.t)
       IN fs' = [fs EXCEPT !.op = "step", !.action = action, !.inner = r.inner,
                           !.ret = r.ret, !.error = r.error,
                           !.t = fs.t + Len(r.inner)]
    /\ UNCHANGED <<capacity, num_steps, memory, last_n_transitions, nextId,
                   emitted, appended, episode, alone, last, file, saved,
                   constructs, loop, rec, sd>>

NextFrameSkip ==
    \/ \E skip \in 0..MaxSkip : FrameSkipInit(skip)
    \/ \E action \in Actions :
           \E env \in [1..fs.skip -> Rewards \X BOOLEAN] :
               FrameSkipStepCall(action, env)

SpecFrameSkip == InitWrappers /\ [][NextFrameSkip]_vars

\* the sum of the rewards of the inner steps
RECURSIVE SumRewards(_)
SumRewards(inner) ==
    IF inner = <<>> THEN 0 ELSE inner[1].reward + SumRewards(Tail(inner))

\* C29: with skip >= 1, step(action) steps the wrapped env at most skip times,
\* each time with that action, and never after an inner step reported done; it
\* returns the observation, done flag and info of the last inner step made and
\* the sum of the rewards of exactly the inner steps made.
C29_FrameSkipStep ==
    (fs.op = "step" /\ fs.skip >= 1) =>
        LET n == Len(fs.inner) IN
        /\ fs.error = ""
        /\ 1 <= n /\ n <= fs.skip
        /\ \A j \in 1..n :
               /\ fs.inner[j].action = fs.action
               /\ ~fs.inner[j].after_done
               /\ j < n => ~fs.inner[j].done
        /\ n < fs.skip => fs.inner[n].done
        /\ fs.ret.obs = fs.inner[n].obs
        /\ fs.ret.done = fs.inner[n].done
        /\ fs.ret.info = fs.inner[n].info
        /\ fs.ret.total_reward = SumRewards(fs.inner)

\* C29 witness: skip = 3 and the second inner step reported done
C29_Witness ==
    /\ fs.op = "step" /\ fs.skip = 3
    /\ Len(fs.inner) = 2 /\ fs.inner[2].done
    /\ fs.inner[1].reward = 1 /\ fs.inner[2].reward = 2
    /\ fs.ret.total_reward = 3 /\ fs.ret.done
    /\ fs.ret.obs = fs.inner[2].obs

\* ---- _ContinuingTimeLimitStatsRecorder (baselines/env_wrappers.py) ----
\* rec holds the attributes of the recorder (closed, done, steps: None until
\* the first after_reset, episode_lengths, _save_completed) and, as history,
\* after_step calls so far (ncalls) and since the parent's save_complete last
\* ran (since), how often the parent's save_complete ran in the most recent
\* call (ran) and the recorder as that call found it (pre).

\* super().save_complete(): the episode is recorded when steps is not None
ParentSaveComplete(r) ==
    [r EXCEPT !.episode_lengths = IF r.steps # None THEN Append(@, r.steps) ELSE @,
              !.ran = @ + 1, !.since_at_save = r.since, !.since = 0]

\* if not self._save_completed:
SaveGuardAlways(flag) == TRUE
SaveGuard(flag) == ~flag

\* _ContinuingTimeLimitStatsRecorder.save_complete
SaveCompleteBody(r) ==
    IF SaveGuard(r.save_completed)
    THEN [ParentSaveComplete(r) EXCEPT !.save_completed = TRUE]
    ELSE r

\* StatsRecorder.after_reset (not overridden): a new episode starts
AfterResetBody(r) == [r EXCEPT !.steps = 0]

\* _ContinuingTimeLimitStatsRecorder.before_reset; steps > 0 is evaluated only
\* when done is False, and raises when steps is still None
BeforeResetBody(r) ==
    IF r.closed THEN [r EXCEPT !.error = "AssertionError"]
    ELSE IF r.done = "False" /\ r.steps = None
         THEN [r EXCEPT !.error = "TypeError"]
         ELSE LET r1 == IF r.done # "None" /\ r.done = "False" /\ r.steps > 0
                        THEN SaveCompleteBody(r)
                        ELSE r
              IN [r1 EXCEPT !.done = "False", !.initial_reset = TRUE]

\* super().after_step(observation, reward, done, info): steps += 1 raises when
\* steps is None; a done step completes the episode through self.save_complete
ParentAfterStep(r, done) ==
    IF r.steps = None THEN [r EXCEPT !.error = "TypeError"]
    ELSE LET r1 == [r EXCEPT !.steps = @ + 1,
                             !.done = IF done THEN "True" ELSE "False"]
             r2 == IF done THEN SaveCompleteBody(r1) ELSE r1
             r3 == BeforeResetBody(r2)
         IN IF done /\ r.autoreset
            THEN IF r3.error # "" THEN r3 ELSE AfterResetBody(r3)
            ELSE r2

\* _ContinuingTimeLimitStatsRecorder.after_step
AfterStepBody(r, done) ==
    ParentAfterStep([r EXCEPT !.save_completed = FALSE, !.since = @ + 1], done)

\* _ContinuingTimeLimitStatsRecorder.close
CloseBody(r) == [SaveCompleteBody(r) EXCEPT !.closed = TRUE]

\* the recorder at the start of the call op
Called(op) ==
    [rec EXCEPT !.op = op, !.error = "", !.ran = 0,
                !.pre = [closed |-> rec.closed, done |-> rec.done,
                         steps |-> rec.steps, since |-> rec.since]]

BufferUnchanged ==
    UNCHANGED <<capacity, num_steps, memory, last_n_transitions, nextId,
                emitted, appended, episode, alone, last, file, saved,
                constructs, loop, fs, sd>>

\* _ContinuingTimeLimitStatsRecorder(directory, file_prefix, autoreset=...)
RecorderInit(autoreset) ==
    /\ rec.op = "none"
    /\ rec' = [RecNone EXCEPT !.op = "init", !.autoreset = autoreset]
    /\ BufferUnchanged

before_reset ==
    /\ rec.op # "none"
    /\ rec' = BeforeResetBody(Called("before_reset"))
    /\ BufferUnchanged

after_reset ==
    /\ rec.op # "none"
    /\ rec' = AfterResetBody(Called("after_reset"))
    /\ BufferUnchanged

after_step(done) ==
    /\ rec.op # "none"
    /\ rec.ncalls < MaxRecorderSteps
    /\ rec' = AfterStepBody([Called("after_step") EXCEPT !.ncalls = @ + 1], done)
    /\ BufferUnchanged

save_complete ==
    /\ rec.op # "none"
    /\ rec' = SaveCompleteBody(Called("save_complete"))
    /\ BufferUnchanged

close ==
    /\ rec.op # "none"
    /\ rec' = CloseBody(Called("close"))
    /\ BufferUnchanged

NextRecorder ==
    \/ \E autoreset \in BOOLEAN : RecorderInit(autoreset)
    \/ before_reset
    \/ after_reset
    \/ \E done \in BOOLEAN : after_step(done)
    \/ save_complete
    \/ close

SpecRecorder == InitWrappers /\ [][NextRecorder]_vars

\* C30: the parent's save_complete runs at most once per batch of steps, only
\* when an after_step was called since it last ran (or since construction);
\* before_reset on an episode that is not done and has steps > 0 leaves that
\* episode completed; close leaves no steps unsaved and the recorder closed.
C30_SaveOncePerBatch ==
    /\ rec.ran <= 1
    /\ rec.ran = 1 => rec.since_at_save >= 1
    /\ rec.save_completed <=> rec.since = 0
    /\ ( /\ rec.op = "before_reset" /\ ~rec.pre.closed
         /\ rec.pre.done = "False" /\ rec.pre.steps > 0 ) =>
           /\ rec.error = ""
           /\ rec.save_completed
           /\ rec.ran = 1 <=> rec.pre.since >= 1
           /\ rec.episode_lengths # <<>>
           /\ Last(rec.episode_lengths) = rec.pre.steps
    /\ rec.op = "close" =>
           /\ rec.closed /\ rec.error = ""
           /\ rec.save_completed
           /\ rec.ran = 1 <=> rec.pre.since >= 1
           /\ (rec.pre.since >= 1 /\ rec.pre.steps # None) =>
                  Last(rec.episode_lengths) = rec.pre.steps

\* C30 witness: an episode of two steps, not done, completed by before_reset
C30_Witness ==
    /\ rec.op = "before_reset" /\ rec.pre.done = "False"
    /\ rec.pre.steps = 2 /\ rec.pre.since = 2
    /\ rec.ran = 1
    /\ rec.episode_lengths = <<2>>

\* ---- SerialDiscreteActionWrapper (baselines/env_wrappers.py) ----
\* An OrderedDict is [keys: its keys in insertion order, val: key -> value];
\* the camera value is the pair of its two components.
Range(s) == {s[i] : i \in 1..Len(s)}

BINARY_KEYS ==
    {"forward", "back", "left", "right", "jump", "sneak", "sprint", "attack"}

EnumKeys == {"place", "equip", "craft", "nearbyCraft", "nearbySmelt"}

\* self._noop_template
NoopTemplate ==
    LET keys == <<"forward", "back", "left", "right", "jump", "sneak", "sprint",
                  "attack", "camera", "place", "equip", "craft", "nearbyCraft",
                  "nearbySmelt">>
    IN [keys |-> keys,
        val |-> [k \in Range(keys) |-> IF k = "camera" THEN <<0, 0>> ELSE 0]]

\* d[k] = v: a new key goes to the end of the OrderedDict
DictSet(d, k, v) ==
    IF k \in DOMAIN d.val
    THEN [d EXCEPT !.val[k] = v]
    ELSE [keys |-> Append(d.keys, k),
          val |-> [x \in DOMAIN d.val \cup {k} |-> IF x = k THEN v ELSE d.val[x]]]

\* the key lists the callers pass, and the key sets of the wrapped action space
KeyLists ==
    {<<>>, <<"forward">>, <<"attack">>, <<"camera">>, <<"place">>,
     <<"forward", "attack">>, <<"attack", "attack">>}
EnvKeySets ==
    (SUBSET {"forward", "attack", "camera", "place"})
        \cup {{"forward", "inventory"}}

\* the three key lists intersect (or one repeats a key)
KeysIntersect(always_keys, reverse_keys, exclude_keys) ==
    Cardinality(Range(always_keys) \cup Range(reverse_keys) \cup Range(exclude_keys))
        # Len(always_keys) + Len(reverse_keys) + Len(exclude_keys)

\* self.noop after the deletion of the keys the wrapped space does not have
NoopOf(spaces) ==
    [keys |-> SelectSeq(NoopTemplate.keys, LAMBDA k : k \in DOMAIN spaces),
     val |-> [k \in DOMAIN NoopTemplate.val \cap DOMAIN spaces |->
                 NoopTemplate.val[k]]]

\* for key in self.always_keys / self.reverse_keys: check, self.noop[key] = 1
RECURSIVE PressKeys(_, _, _)
PressKeys(noop, keys, i) ==
    IF i > Len(keys) THEN [error |-> "", noop |-> noop]
    ELSE IF keys[i] \notin BINARY_KEYS
         THEN [error |-> "ValueError", noop |-> noop]
         ELSE PressKeys(DictSet(noop, keys[i], 1), keys, i + 1)

\* if key in self.always_keys or key in self.exclude_keys: continue
SkipKeyAlwaysOnly(key, always_keys, exclude_keys) == key \in Range(always_keys)
SkipKey(key, always_keys, exclude_keys) ==
    key \in Range(always_keys) \/ key \in Range(exclude_keys)

\* the actions one key of self.noop contributes
ActionsOfKey(noop, key, reverse_keys, spaces) ==
    IF key \in BINARY_KEYS
    THEN <<DictSet(noop, key, IF key \in Range(reverse_keys) THEN 0 ELSE 1)>>
    ELSE IF key = "camera"
         THEN <<DictSet(noop, key, <<0, -10>>), DictSet(noop, key, <<0, 10>>)>>
         ELSE IF key \in EnumKeys
              THEN [a \in 1..(spaces[key] - 1) |-> DictSet(noop, key, a)]
              ELSE <<>>

\* for key in self.noop: the actions of the keys from the i-th on
RECURSIVE EachAction(_, _, _, _, _, _)
EachAction(noop, i, always_keys, reverse_keys, exclude_keys, spaces) ==
    IF i > Len(noop.keys) THEN <<>>
    ELSE (IF SkipKey(noop.keys[i], always_keys, exclude_keys)
          THEN <<>>
          ELSE ActionsOfKey(noop, noop.keys[i], reverse_keys, spaces))
         \o EachAction(noop, i + 1, always_keys, reverse_keys, exclude_keys, spaces)

\* SerialDiscreteActionWrapper.__init__; spaces: key -> size of its space
SerialDiscreteInit(spaces, always_keys, reverse_keys, exclude_keys, exclude_noop) ==
    LET failed == [SdNone EXCEPT !.op = "init", !.error = "ValueError"]
        a == PressKeys(NoopOf(spaces), always_keys, 1)
        r == PressKeys(a.noop, reverse_keys, 1)
        noop == r.noop
        all == <<noop>> \o EachAction(noop, 1, always_keys, reverse_keys,
                                      exclude_keys, spaces)
        actions == IF exclude_noop THEN Tail(all) ELSE all
    IN IF KeysIntersect(always_keys, reverse_keys, exclude_keys) THEN failed
       ELSE IF \E k \in DOMAIN spaces : k \notin DOMAIN NoopTemplate.val THEN failed
       ELSE IF a.error # "" \/ r.error # "" THEN failed
       ELSE IF \E k \in Range(exclude_keys) : k \notin DOMAIN noop.val THEN failed
       ELSE [SdNone EXCEPT !.op = "init", !.always_keys = always_keys,
                           !.reverse_keys = reverse_keys,
                           !.exclude_keys = exclude_keys,
                           !.exclude_noop = exclude_noop, !.noop = noop,
                           !.actions = actions, !.n = Len(actions)]

\* self.action_space.contains(action), for gym.spaces.Discrete(n)
Contains(n, a) == 0 <= a /\ a < n

\* self._actions[action], with Python's indexing: a negative index counts
\* from the end of the list
PyIndex(list, a) == IF a >= 0 THEN list[a + 1] ELSE list[Len(list) + a + 1]

\* SerialDiscreteActionWrapper.action
SerialDiscreteAction(w, a) ==
    IF ~Contains(w.n, a)
    THEN [w EXCEPT !.op = "action", !.a = a, !.error = "ValueError", !.ret = NoDict]
    ELSE IF a >= Len(w.actions) \/ a < 0 - Len(w.actions)
         THEN [w EXCEPT !.op = "action", !.a = a, !.error = "IndexError",
                        !.ret = NoDict]
         ELSE [w EXCEPT !.op = "action", !.a = a, !.error = "",
                        !.ret = PyIndex(w.actions, a)]

SdUnchanged ==
    UNCHANGED <<capacity, num_steps, memory, last_n_transitions, nextId,
                emitted, appended, episode, alone, last, file, saved,
                constructs, loop, fs, rec>>

serial_init(spaces, always_keys, reverse_keys, exclude_keys, exclude_noop) ==
    /\ sd.op = "none"
    /\ sd' = SerialDiscreteInit(spaces, always_keys, reverse_keys, exclude_keys,
                                exclude_noop)
    /\ SdUnchanged

serial_action(a) ==
    /\ sd.op \in {"init", "action"}
    /\ sd.op = "init" => sd.error = ""
    /\ sd' = SerialDiscreteAction(sd, a)
    /\ SdUnchanged

NextSerial ==
    \/ \E keys \in EnvKeySets, size \in 1..MaxEnum,
          always_keys \in KeyLists, reverse_keys \in KeyLists,
          exclude_keys \in KeyLists, exclude_noop \in BOOLEAN :
           serial_init([k \in keys |-> size], always_keys, reverse_keys,
                       exclude_keys, exclude_noop)
    \/ \E a \in (0 - 2)..(sd.n + 1) : serial_action(a)

SpecSerial == InitWrappers /\ [][NextSerial]_vars

\* the keys in which the action op differs from the noop action
Differing(op) ==
    {k \in DOMAIN sd.noop.val \cup DOMAIN op.val :
        \/ k \notin DOMAIN op.val
        \/ k \notin DOMAIN sd.noop.val
        \/ op.val[k] # sd.noop.val[k]}

\* C31: every discrete action differs from the noop action in exactly one
\* key, which is in neither always_keys nor exclude_keys; the noop action
\* itself is at index 0 unless exclude_noop; action(a) with a outside the
\* discrete action space raises ValueError and returns no action.
C31_Serial ==
    (sd.op \in {"init", "action"} /\ sd.actions # <<>>) =>
        /\ sd.n = Len(sd.actions)
        /\ ~sd.exclude_noop => sd.actions[1] = sd.noop
        /\ \A i \in 1..Len(sd.actions) :
               IF ~sd.exclude_noop /\ i = 1
               THEN Differing(sd.actions[i]) = {}
               ELSE /\ Cardinality(Differing(sd.actions[i])) = 1
                    /\ Differing(sd.actions[i])
                           \cap (Range(sd.always_keys) \cup Range(sd.exclude_keys)) = {}
        /\ sd.op = "action" =>
               IF sd.a \in 0..(sd.n - 1)
               THEN sd.error = "" /\ sd.ret = sd.actions[sd.a + 1]
               ELSE sd.error = "ValueError" /\ sd.ret = NoDict

\* C31 witness: a wrapper with an always key, an excluded key and actions for
\* a reversed key and the camera, asked for the action -1
C31_Witness ==
    /\ sd.op = "action" /\ sd.a = 0 - 1
    /\ sd.error = "ValueError" /\ sd.ret = NoDict
    /\ sd.always_keys = <<"attack">> /\ sd.exclude_keys = <<"place">>
    /\ sd.reverse_keys = <<"forward">>
    /\ Len(sd.actions) = 4

=============================================================================
